---- MODULE Spec2Model ----
(***************************************************************************)
(* A model of mkdocs_get_deps.get_deps (src/mkdocs_get_deps/__init__.py).  *)
(*                                                                         *)
(* Strings are sequences of atoms (indivisible pieces of text); the        *)
(* separators "/", "." and "_" that the code splits on are atoms of their  *)
(* own, so partition, rpartition, startswith and slicing are computed.     *)
(* Parsed YAML documents are tagged values: null, str, map, list.  A map   *)
(* is a function from strings to values.                                   *)
(***************************************************************************)
EXTENDS Integers, Sequences, FiniteSets, TLC

VARIABLES
    cfg,                  \* the parsed configuration document (yaml_load's result)
    projects,             \* the catalog: yaml.safe_load(projects_file)["projects"]
    pc,                   \* position of the running call of get_deps
    packages_to_install,  \* the result set under construction
    theme,                \* the local variable theme
    wanted,               \* the three wanted sets of wanted_plugins, in kind order
    pi,                   \* number of catalog projects already processed by the loop
    log,                  \* the log records emitted by the running call, in order
    cache,                \* the lru_cache of _entry_points: the groups already computed
    result,               \* what the call returned
    matched,              \* history: the <<kind, name, project index>> of each match
    calls,                \* number of calls of get_deps started in this process
    prev,                 \* result and log of the previous completed call
    dkeys,                \* _dig's second argument (accessor specification)
    dout                  \* _dig's return value (accessor specification)

vars == <<cfg, projects, pc, packages_to_install, theme, wanted, pi, log, cache,
          result, matched, calls, prev, dkeys, dout>>

---------------------------------------------------------------------------
(* Bounds of the model *)

MaxProjects == 2
MaxCalls == 2
MaxItems == 3

---------------------------------------------------------------------------
(* Strings *)

S(a) == <<a>>

\* The atoms that occur in sorted strings, in ascending code-point order.
AtomOrder ==
    << "/", "babel", "callouts", "git+https://github.com/", "jldiaz",
       "markdown-callouts", "material", "mkdocs", "mkdocs-material",
       "mkdocs-plugin-tags", "mkdocs[i18n]", "pymdown-extensions", "pyyaml", "qndy",
       "readthedocs", "saqd",
       "search", "syyi", "tagl", "tags", "toc" >>

AtomRank(a) == CHOOSE i \in 1..Len(AtomOrder) : AtomOrder[i] = a

\* s < t in Python's string order.
RECURSIVE StrLess(_, _)
StrLess(s, t) ==
    IF t = <<>> THEN FALSE
    ELSE IF s = <<>> THEN TRUE
    ELSE IF Head(s) = Head(t) THEN StrLess(Tail(s), Tail(t))
    ELSE AtomRank(Head(s)) < AtomRank(Head(t))

\* sorted(S) for a set of strings, ascending.
RECURSIVE sorted(_)
sorted(set) ==
    IF set = {} THEN <<>>
    ELSE LET m == CHOOSE x \in set : \A y \in set \ {x} : StrLess(x, y)
         IN  <<m>> \o sorted(set \ {m})

\* s.startswith(p)
StartsWith(s, p) == Len(p) <= Len(s) /\ SubSeq(s, 1, Len(p)) = p

\* s[n:]
SliceFrom(s, n) == SubSeq(s, n + 1, Len(s))

\* Index of the first occurrence of atom sep in s, 0 if none.
FirstIndex(s, sep) ==
    IF \E i \in 1..Len(s) : s[i] = sep
    THEN CHOOSE i \in 1..Len(s) : s[i] = sep /\ \A j \in 1..(i - 1) : s[j] # sep
    ELSE 0

\* Index of the last occurrence of atom sep in s, 0 if none.
LastIndex(s, sep) ==
    IF \E i \in 1..Len(s) : s[i] = sep
    THEN CHOOSE i \in 1..Len(s) : s[i] = sep /\ \A j \in (i + 1)..Len(s) : s[j] # sep
    ELSE 0

\* s.partition(sep): <<before, after>> (the separator itself is dropped).
Partition(s, sep) ==
    LET i == FirstIndex(s, sep)
    IN  IF i = 0 THEN <<s, <<>>>> ELSE <<SubSeq(s, 1, i - 1), SliceFrom(s, i)>>

\* s.rpartition(sep)[-1]
RPartitionLast(s, sep) == SliceFrom(s, LastIndex(s, sep))

\* s.capitalize(), for the strings str(kind) can be.
Capitalize(s) ==
    IF s = <<>> THEN s
    ELSE LET up == [theme |-> "Theme", plugin |-> "Plugin", extension |-> "Extension"]
         IN  <<up[Head(s)]>> \o Tail(s)

\* repr of a list of strings, as an f-string interpolates it.
RECURSIVE ReprItems(_)
ReprItems(seq) ==
    IF seq = <<>> THEN <<>>
    ELSE <<"'">> \o Head(seq) \o <<"'">>
         \o (IF Len(seq) > 1 THEN <<", ">> ELSE <<>>) \o ReprItems(Tail(seq))

ReprList(seq) == <<"[">> \o ReprItems(seq) \o <<"]">>

---------------------------------------------------------------------------
(* Documents *)

None == [t |-> "null"]
StrV(s) == [t |-> "str", s |-> s]
MapV(m) == [t |-> "map", m |-> m]
ListV(l) == [t |-> "list", l |-> l]
EmptyMap == <<>>

\* The sentinel _NotFound = (), an empty tuple no YAML document contains.
_NotFound == [t |-> "notfound"]

\* dict.update(other) on a, and a[key] = value.
Update(a, other) == other @@ a

\* The flat dict _dig builds from a list: the items are visited in reverse,
\* a single-key dict is merged, a string is set to {}, anything else skipped.
RECURSIVE FlattenFrom(_, _, _)
FlattenFrom(orig_cfg, i, acc) ==
    IF i = 0 THEN acc
    ELSE LET item == orig_cfg[i]
             next == IF item.t = "map" /\ Cardinality(DOMAIN item.m) = 1
                        THEN Update(acc, item.m)
                     ELSE IF item.t = "str"
                        THEN Update(acc, item.s :> MapV(EmptyMap))
                     ELSE acc
         IN  FlattenFrom(orig_cfg, i - 1, next)

\* Faulty variant: the items are visited in original order, so the last occurrence
\* of a name wins.
RECURSIVE FlattenForwardFrom(_, _, _)
FlattenForwardFrom(orig_cfg, i, acc) ==
    IF i > Len(orig_cfg) THEN acc
    ELSE LET item == orig_cfg[i]
             next == IF item.t = "map" /\ Cardinality(DOMAIN item.m) = 1
                        THEN Update(acc, item.m)
                     ELSE IF item.t = "str"
                        THEN Update(acc, item.s :> MapV(EmptyMap))
                     ELSE acc
         IN  FlattenForwardFrom(orig_cfg, i + 1, next)

Flatten_Forward(orig_cfg) == FlattenForwardFrom(orig_cfg, 1, EmptyMap)

Flatten(orig_cfg) == FlattenFrom(orig_cfg, Len(orig_cfg), EmptyMap)

\* _dig(cfg, keys): cfg[k1][k2]... or _NotFound.  Indexing anything but a
\* dict by a string key raises TypeError, a missing key KeyError.
RECURSIVE _dig(_, _)
_dig(c, keys) ==
    LET key == Partition(keys, ".")[1]
        rest == Partition(keys, ".")[2]
    IN  IF c.t # "map" THEN _NotFound
        ELSE IF key \notin DOMAIN c.m THEN _NotFound
        ELSE LET v == c.m[key]
                 f == IF v.t = "list" THEN MapV(Flatten(v.l)) ELSE v
             IN  IF rest = <<>> THEN f ELSE _dig(f, rest)

\* Whether tuple(obj) is defined: None is not iterable.
Iterable(obj) == obj.t \in {"str", "map", "list", "notfound"}

\* _strings(obj): (obj,) for a string, tuple(obj) otherwise.  A dict yields
\* its keys (their order is not modelled: every caller that can pass a dict
\* builds a set from them), a list of strings its items, () nothing.
_strings(obj) ==
    CASE obj.t = "str" -> <<obj.s>>
      [] obj.t = "list" -> [i \in 1..Len(obj.l) |-> obj.l[i].s]
      [] obj.t = "map" -> sorted(DOMAIN obj.m)
      [] OTHER -> <<>>

Range(seq) == {seq[i] : i \in 1..Len(seq)}

---------------------------------------------------------------------------
(* Capability kinds and the local entry-point registry *)

ThemeKey == <<"mkdocs", "_", "theme">>
PluginKey == <<"mkdocs", "_", "plugin">>
ExtensionKey == <<"markdown", "_", "extension">>

_PluginKind(projects_key, entry_points_key) ==
    [projects_key |-> projects_key, entry_points_key |-> entry_points_key]

\* _PluginKind.__str__
KindStr(kind) == RPartitionLast(kind.projects_key, "_")

\* The kinds of wanted_plugins, in its order.
Kinds ==
    << _PluginKind(ThemeKey, S("mkdocs.themes")),
       _PluginKind(PluginKey, S("mkdocs.plugins")),
       _PluginKind(ExtensionKey, S("markdown.extensions")) >>

Dist(name) == [t |-> "dist", name |-> name]
EntryPoint(name, dist) == [t |-> "ep", name |-> name, dist |-> dist]

\* importlib.metadata.entry_points(group=group): what is installed in the
\* environment of the process.  The built-in themes and the search plugin
\* come from mkdocs, toc from Markdown, callouts from a third-party
\* distribution, and the material theme is registered without distribution
\* metadata.
entry_points(group) ==
    CASE group = S("mkdocs.themes") ->
            { EntryPoint(S("mkdocs"), Dist(S("mkdocs"))),
              EntryPoint(S("readthedocs"), Dist(S("mkdocs"))),
              EntryPoint(S("material"), None) }
      [] group = S("mkdocs.plugins") ->
            { EntryPoint(S("search"), Dist(S("mkdocs"))) }
      [] group = S("markdown.extensions") ->
            { EntryPoint(S("toc"), Dist(S("Markdown"))),
              EntryPoint(S("callouts"), Dist(S("markdown-callouts"))) }
      [] OTHER -> {}

Rec(level, msg, arg) == [level |-> level, msg |-> msg, arg |-> arg]

\* The debug record _entry_points emits when it computes a group.
AvailableRec(group, eps) ==
    Rec("DEBUG", <<"Available '">> \o group \o <<"' entry points: ">>
                 \o ReprList(sorted(DOMAIN eps)), None)

\* Faulty variant: a cache hit returns an empty mapping instead of the cached one.
_entry_points_EmptyOnHit(group, c) ==
    IF group \in DOMAIN c
    THEN [eps |-> EmptyMap, cache |-> c, log |-> <<>>]
    ELSE LET found == entry_points(group)
             eps == [n \in {ep.name : ep \in found} |->
                        CHOOSE ep \in found : ep.name = n]
         IN  [eps |-> eps, cache |-> Update(c, group :> eps),
              log |-> <<AvailableRec(group, eps)>>]

\* _entry_points(group) under functools.lru_cache: c is the cache before
\* the call; the body runs, and logs, only when group is not yet in it.
_entry_points(group, c) ==
    IF group \in DOMAIN c
    THEN [eps |-> c[group], cache |-> c, log |-> <<>>]
    ELSE LET found == entry_points(group)
             eps == [n \in {ep.name : ep \in found} |->
                        CHOOSE ep \in found : ep.name = n]
         IN  [eps |-> eps, cache |-> Update(c, group :> eps),
              log |-> <<AvailableRec(group, eps)>>]

---------------------------------------------------------------------------
(* get_deps, lines 101-153: load the configuration, pick the base package,
   extract the wanted names *)

ConfigFile == S("/site/mkdocs.yml")

MarkerKeys == {S("site_name"), S("theme"), S("plugins"), S("markdown_extensions")}

\* bool(obj)
Truthy(obj) ==
    CASE obj.t = "null" -> FALSE
      [] obj.t = "str" -> obj.s # <<>>
      [] obj.t = "map" -> DOMAIN obj.m # {}
      [] obj.t = "list" -> obj.l # <<>>
      [] OTHER -> FALSE

\* Whether obj can be a member of a set: dicts and lists are unhashable.
Hashable(obj) == obj.t \in {"null", "str"}

\* Faulty variant: a null locale is taken for a missing one.
BasePackages_NullIsAbsent(c) ==
    IF \A k \in MarkerKeys : k \notin DOMAIN c.m THEN {}
    ELSE IF _dig(c, <<"theme", ".", "locale">>) \notin {_NotFound, None, StrV(S("en"))}
         THEN {S("mkdocs[i18n]")}
         ELSE {S("mkdocs")}

\* Lines 125-131: the base package, or none and a warning.
BasePackages(c) ==
    IF \A k \in MarkerKeys : k \notin DOMAIN c.m THEN {}
    ELSE IF _dig(c, <<"theme", ".", "locale">>) \notin {_NotFound, StrV(S("en"))}
         THEN {S("mkdocs[i18n]")}
         ELSE {S("mkdocs")}

NotConfigRec ==
    Rec("WARNING", <<"The file '">> \o ConfigFile
                   \o <<"' doesn't seem to be a mkdocs.yml config file">>, None)

BaseLog(c) ==
    IF \A k \in MarkerKeys : k \notin DOMAIN c.m THEN <<NotConfigRec>> ELSE <<>>

\* Lines 133-136: cfg["theme"]["name"], else cfg.get("theme").
ThemeOf(c) ==
    IF /\ S("theme") \in DOMAIN c.m
       /\ c.m[S("theme")].t = "map"
       /\ S("name") \in DOMAIN c.m[S("theme")].m
    THEN c.m[S("theme")].m[S("name")]
    ELSE IF S("theme") \in DOMAIN c.m THEN c.m[S("theme")] ELSE None

WantedRec(kind, w) ==
    Rec("DEBUG", <<"Wanted ">> \o KindStr(kind) \o <<"s: ">> \o ReprList(sorted(w)), None)

LoadingRec ==
    Rec("DEBUG", <<"Loading configuration file: ">> \o ConfigFile, None)

\* The outcome of lines 101-153 on configuration c: the exception raised
\* ("" if none), and the locals and log records at that point.
PrepareOutcome(c) ==
    LET th == ThemeOf(c)
        pl == _dig(c, S("plugins"))
        ex == _dig(c, S("markdown_extensions"))
        out(raised, pk, t, w, lg) ==
            [raised |-> raised, packages |-> pk, theme |-> t, wanted |-> w, log |-> lg]
        none == <<{}, {}, {}>>
    IN  IF c.t # "map"
        THEN out("ValueError", {}, None, none, <<LoadingRec>>)
        ELSE LET pk == BasePackages(c)
                 lg == <<LoadingRec>> \o BaseLog(c)
             IN  IF Truthy(th) /\ ~Hashable(th)
                 THEN out("TypeError", pk, th, none, lg)
                 ELSE IF ~Iterable(pl) \/ ~Iterable(ex)
                 THEN out("TypeError", pk, th, none, lg)
                 ELSE LET themes == IF Truthy(th) THEN {th.s} ELSE {}
                          w == << themes \ {S("mkdocs"), S("readthedocs")},
                                  Range(_strings(pl)) \ {S("search")},
                                  Range(_strings(ex)) >>
                      IN  out("", pk, th, w,
                              lg \o [k \in 1..3 |-> WantedRec(Kinds[k], w[k])])

---------------------------------------------------------------------------
(* get_deps, lines 155-183: the catalog loop *)

\* f"{theme}" and len(theme), for the values theme can hold here.
Format(th) ==
    CASE th.t = "str" -> th.s
      [] th.t = "map" -> <<"{", "}">>
      [] th.t = "list" -> <<"[", "]">>
      [] OTHER -> <<"None">>

PyLen(th) ==
    CASE th.t = "str" -> Len(th.s)
      [] th.t = "map" -> Cardinality(DOMAIN th.m)
      [] th.t = "list" -> Len(th.l)
      [] OTHER -> 0

\* project.get(key, default)
Get(project, key, default) == IF key \in DOMAIN project THEN project[key] ELSE default

\* Faulty variant: namespaced entries are never matched against the theme.
EffectiveName_NoNamespace(entry_name, th, kind, w) == entry_name

\* Lines 159-167: the name an available entry is matched under.
EffectiveName(entry_name, th, kind, w) ==
    IF /\ "/" \in Range(entry_name)
       /\ th # None
       /\ kind.projects_key = PluginKey
       /\ StartsWith(entry_name, Format(th) \o <<"/">>)
       /\ SliceFrom(entry_name, PyLen(th) + 1) \in w
       /\ entry_name \notin w
    THEN SliceFrom(entry_name, PyLen(th) + 1)
    ELSE entry_name

\* Lines 169-172: the install name, when the project has one.
HasInstallName(project) == S("pypi_id") \in DOMAIN project \/ S("github_id") \in DOMAIN project

InstallName(project) ==
    IF S("pypi_id") \in DOMAIN project THEN project[S("pypi_id")].s
    ELSE <<"git+https://github.com/">> \o project[S("github_id")].s

\* Faulty variant: a path that leads to null counts as missing.
ExtraApplies_NullIsAbsent(c, extra_key) == _dig(c, extra_key) \notin {_NotFound, None}

\* Line 180: whether an extra-dependency rule applies.
ExtraApplies(c, extra_key) == _dig(c, extra_key) # _NotFound

\* Lines 179-181: the packages the project's extra dependencies add.
ExtraPackages(project, c) ==
    LET ed == Get(project, S("extra_dependencies"), MapV(EmptyMap)).m
    IN  UNION { Range(_strings(ed[k])) : k \in {x \in DOMAIN ed : ExtraApplies(c, x)} }

CantInstallRec(kind, entry_name, project) ==
    Rec("ERROR", <<"Can't find how to install ">> \o KindStr(kind) \o <<" '">> \o entry_name
                 \o <<"' although it was identified as ">>, MapV(project))

\* Faulty variant: a matched name is not removed from its wanted set.
MatchEntry_NoRemove(st, c, th, project, p, k, available_name) ==
    LET kind == Kinds[k]
        entry_name == EffectiveName(available_name, th, kind, st.wanted[k])
    IN  IF entry_name \notin st.wanted[k] THEN st
        ELSE IF ~HasInstallName(project)
        THEN [st EXCEPT !.log = Append(@, CantInstallRec(kind, entry_name, project))]
        ELSE [st EXCEPT !.packages = @ \cup {InstallName(project)}
                                       \cup ExtraPackages(project, c),
                        !.matched = Append(@, <<k, entry_name, p>>)]

\* Faulty variant: a project without install name still takes the name out of its
\* wanted set.
MatchEntry_SkipRemoves(st, c, th, project, p, k, available_name) ==
    LET kind == Kinds[k]
        entry_name == EffectiveName(available_name, th, kind, st.wanted[k])
    IN  IF entry_name \notin st.wanted[k] THEN st
        ELSE IF ~HasInstallName(project)
        THEN [st EXCEPT !.log = Append(@, CantInstallRec(kind, entry_name, project)),
                        !.wanted[k] = @ \ {entry_name}]
        ELSE [st EXCEPT !.packages = @ \cup {InstallName(project)}
                                       \cup ExtraPackages(project, c),
                        !.wanted[k] = @ \ {entry_name},
                        !.matched = Append(@, <<k, entry_name, p>>)]

\* Lines 159-183 for one available entry of project number p, kind number k.
MatchEntry(st, c, th, project, p, k, available_name) ==
    LET kind == Kinds[k]
        entry_name == EffectiveName(available_name, th, kind, st.wanted[k])
    IN  IF entry_name \notin st.wanted[k] THEN st
        ELSE IF ~HasInstallName(project)
        THEN [st EXCEPT !.log = Append(@, CantInstallRec(kind, entry_name, project))]
        ELSE [st EXCEPT !.packages = @ \cup {InstallName(project)}
                                       \cup ExtraPackages(project, c),
                        !.wanted[k] = @ \ {entry_name},
                        !.matched = Append(@, <<k, entry_name, p>>)]

\* Lines 156-158: the <<kind number, available name>> pairs of a project, in
\* the order the two inner loops visit them.
RECURSIVE Available(_, _)
Available(project, k) ==
    IF k > Len(Kinds) THEN <<>>
    ELSE LET names == _strings(Get(project, Kinds[k].projects_key, _NotFound))
         IN  [i \in 1..Len(names) |-> <<k, names[i]>>] \o Available(project, k + 1)

RECURSIVE MatchAll(_, _, _, _, _, _)
MatchAll(st, c, th, project, p, todo) ==
    IF todo = <<>> THEN st
    ELSE MatchAll(MatchEntry(st, c, th, project, p, Head(todo)[1], Head(todo)[2]),
                  c, th, project, p, Tail(todo))

---------------------------------------------------------------------------
(* get_deps, lines 185-201: the local fallback and the return *)

NotProvided(kind, entry_name) ==
    Capitalize(KindStr(kind)) \o <<" '">> \o entry_name
        \o <<"' is not provided by any registered project">>

\* Lines 187-199 for one remaining name.
FallbackEntry(st, k, entry_name) ==
    LET kind == Kinds[k]
        call == _entry_points(kind.entry_points_key, st.cache)
        ep == Get(call.eps, entry_name, None)
        dist_name == IF ep # None /\ ep.dist # None THEN StrV(ep.dist.name) ELSE None
        warning == NotProvided(kind, entry_name)
        local == warning \o <<" but is installed locally">>
                 \o (IF Truthy(dist_name) THEN <<" from '">> \o dist_name.s \o <<"'">>
                     ELSE <<>>)
        recs == IF dist_name \in {StrV(S("mkdocs")), StrV(S("Markdown"))} THEN <<>>
                ELSE IF ep # None THEN <<Rec("INFO", local, None)>>
                ELSE <<Rec("WARNING", warning, None)>>
    IN  [cache |-> call.cache, log |-> st.log \o call.log \o recs]

\* Faulty variant: the remaining names are visited in descending order.
RECURSIVE Remaining_Descending(_, _)
Remaining_Descending(w, k) ==
    IF k > Len(Kinds) THEN <<>>
    ELSE [i \in 1..Cardinality(w[k]) |-> <<k, sorted(w[k])[Cardinality(w[k]) + 1 - i]>>]
         \o Remaining_Descending(w, k + 1)

\* The <<kind number, name>> pairs the two loops of lines 185-186 visit.
RECURSIVE Remaining(_, _)
Remaining(w, k) ==
    IF k > Len(Kinds) THEN <<>>
    ELSE [i \in 1..Cardinality(w[k]) |-> <<k, sorted(w[k])[i]>>] \o Remaining(w, k + 1)

RECURSIVE FallbackAll(_, _)
FallbackAll(st, todo) ==
    IF todo = <<>> THEN st
    ELSE FallbackAll(FallbackEntry(st, Head(todo)[1], Head(todo)[2]), Tail(todo))

---------------------------------------------------------------------------
(* The inputs: configuration documents and catalogs *)

Absent == [t |-> "absent"]

\* A dict with the key, unless the value is absent.
Opt(key, v) == IF v = Absent THEN EmptyMap ELSE S(key) :> v

MaterialTags == <<"material", "/", "tags">>

ThemeMaps ==
    { Opt("name", n) @@ Opt("locale", l) :
        n \in {Absent, StrV(S("material")), StrV(S("mkdocs"))},
        l \in {Absent, None, StrV(S("en")), StrV(S("uk"))} }

ThemeChoices ==
    {Absent, None, StrV(S("material")), StrV(S("qndy"))} \cup {MapV(m) : m \in ThemeMaps}

PluginChoices ==
    { Absent, None,
      ListV(<<StrV(S("search"))>>),
      ListV(<<StrV(S("tags"))>>),
      ListV(<<MapV(S("tags") :> None), StrV(MaterialTags)>>),
      ListV(<<StrV(S("tagl")), StrV(S("syyi")), StrV(S("tags"))>>),
      MapV(S("tags") :> MapV(EmptyMap)) }

ExtensionChoices ==
    { Absent, None,
      ListV(<<StrV(S("toc"))>>),
      ListV(<<StrV(S("saqd")), StrV(S("callouts"))>>) }

\* What yaml_load can return: a mapping with any of theme, plugins and
\* markdown_extensions, a mapping with site_name alone, or a document whose
\* root is not a mapping.
Configs ==
    { MapV(Opt("theme", t) @@ Opt("plugins", p) @@ Opt("markdown_extensions", e)) :
        t \in ThemeChoices, p \in PluginChoices, e \in ExtensionChoices }
    \cup {MapV(S("site_name") :> StrV(S("Test")))}
    \cup {StrV(S("text")), ListV(<<StrV(S("tags"))>>)}

\* A theme with its namespaced plugin, installed from the package index; it
\* needs the i18n extra of mkdocs when a locale is configured.
ProjectMaterial ==
    (S("pypi_id") :> StrV(S("mkdocs-material")))
    @@ (ThemeKey :> StrV(S("material")))
    @@ (PluginKey :> ListV(<<StrV(MaterialTags)>>))
    @@ (S("extra_dependencies") :>
            MapV(<<"theme", ".", "locale">> :>
                    ListV(<<StrV(S("mkdocs[i18n]")), StrV(S("babel"))>>)))

\* A plugin installed from its repository.
ProjectTags ==
    (S("github_id") :> StrV(<<"jldiaz", "/", "mkdocs-plugin-tags">>))
    @@ (PluginKey :> StrV(S("tags")))
    @@ (S("extra_dependencies") :>
            MapV(<<"markdown_extensions", ".", "toc">> :>
                    ListV(<<StrV(S("pymdown-extensions"))>>)))

\* A project with neither pypi_id nor github_id.
ProjectNoInstall ==
    (PluginKey :> ListV(<<StrV(S("tags"))>>))
    @@ (ExtensionKey :> StrV(S("callouts")))
    @@ (S("extra_dependencies") :> MapV(S("theme") :> StrV(S("pyyaml"))))

\* A project with both identifiers, providing a plugin and an extension.
ProjectCallouts ==
    (S("pypi_id") :> StrV(S("markdown-callouts")))
    @@ (S("github_id") :> StrV(<<"jldiaz", "/", "callouts">>))
    @@ (PluginKey :> ListV(<<StrV(S("tags"))>>))
    @@ (ExtensionKey :> ListV(<<StrV(S("callouts"))>>))

Pool == {ProjectMaterial, ProjectTags, ProjectNoInstall, ProjectCallouts}

Catalogs == UNION { [1..n -> Pool] : n \in 0..MaxProjects }

---------------------------------------------------------------------------
(* The calls of get_deps in one process *)

NoWanted == <<{}, {}, {}>>

\* The state of the process before its first call on configuration c and
\* catalog ps.
Start(c, ps) ==
    /\ cfg = c
    /\ projects = ps
    /\ pc = "start"
    /\ packages_to_install = {}
    /\ theme = None
    /\ wanted = NoWanted
    /\ pi = 0
    /\ log = <<>>
    /\ cache = EmptyMap
    /\ result = <<>>
    /\ matched = <<>>
    /\ calls = 1
    /\ prev = [result |-> <<>>, log |-> <<>>]
    /\ dkeys = <<>>
    /\ dout = None

Init == \E c \in Configs, ps \in Catalogs : Start(c, ps)

Raised == pc \in {"ValueError", "TypeError"}

\* Lines 101-153.
Prepare ==
    /\ pc = "start"
    /\ \E o \in {PrepareOutcome(cfg)} :
           /\ pc' = IF o.raised = "" THEN "match" ELSE o.raised
           /\ packages_to_install' = o.packages
           /\ theme' = o.theme
           /\ wanted' = o.wanted
           /\ log' = log \o o.log
    /\ pi' = 0
    /\ UNCHANGED <<cfg, projects, cache, result, matched, calls, prev, dkeys, dout>>

\* Lines 155-183 for the next project of the catalog.
MatchProject ==
    /\ pc = "match"
    /\ pi < Len(projects)
    /\ \E st \in {MatchAll([packages |-> packages_to_install, wanted |-> wanted,
                           log |-> log, matched |-> matched],
                          cfg, theme, projects[pi + 1], pi + 1, Available(projects[pi + 1], 1))} :
           /\ packages_to_install' = st.packages
           /\ wanted' = st.wanted
           /\ log' = st.log
           /\ matched' = st.matched
    /\ pi' = pi + 1
    /\ UNCHANGED <<cfg, projects, pc, theme, cache, result, calls, prev, dkeys, dout>>

\* Lines 185-201, after the last project.
Finish ==
    /\ pc = "match"
    /\ pi = Len(projects)
    /\ \E st \in {FallbackAll([cache |-> cache, log |-> log], Remaining(wanted, 1))} :
           /\ cache' = st.cache
           /\ log' = st.log
    /\ result' = sorted(packages_to_install)
    /\ pc' = "done"
    /\ UNCHANGED <<cfg, projects, packages_to_install, theme, wanted, pi, matched,
                   calls, prev, dkeys, dout>>

\* The process calls get_deps again on the same configuration and catalog;
\* only the lru_cache survives the previous call.
CallAgain ==
    /\ pc = "done"
    /\ calls < MaxCalls
    /\ prev' = [result |-> result, log |-> log]
    /\ calls' = calls + 1
    /\ pc' = "start"
    /\ packages_to_install' = {}
    /\ theme' = None
    /\ wanted' = NoWanted
    /\ pi' = 0
    /\ log' = <<>>
    /\ result' = <<>>
    /\ matched' = <<>>
    /\ UNCHANGED <<cfg, projects, cache, dkeys, dout>>

\* One call of get_deps.
Next == Prepare \/ MatchProject \/ Finish

Spec == Init /\ [][Next]_vars

\* Several calls in one process.
NextTwice == Prepare \/ MatchProject \/ Finish \/ CallAgain

SpecTwice == Init /\ [][NextTwice]_vars

---------------------------------------------------------------------------
(* The accessor _dig on its own: a plugins list and a dotted path *)

ItemA == S("a")
ItemB == S("b")
ItemX == S("x")

\* What a plugins list can hold: bare names, single-key mappings with a
\* mapping, null or list value, and entries _dig skips (a two-key mapping,
\* a null).
Items ==
    { StrV(ItemA), StrV(ItemB),
      MapV(ItemA :> MapV(ItemX :> StrV(S("1")))),
      MapV(ItemA :> None),
      MapV(ItemA :> ListV(<<StrV(ItemX)>>)),
      MapV(ItemB :> MapV(ItemX :> StrV(S("2")))),
      MapV((ItemA :> None) @@ (ItemB :> None)),
      None }

ItemLists == UNION { [1..n -> Items] : n \in 0..MaxItems }

DigPaths ==
    { S("plugins"),
      <<"plugins", ".", "a">>, <<"plugins", ".", "a", ".", "x">>,
      <<"plugins", ".", "b">>, <<"plugins", ".", "b", ".", "x">> }

InitDig ==
    /\ cfg \in {MapV(S("plugins") :> ListV(l)) : l \in ItemLists}
    /\ dkeys \in DigPaths
    /\ dout = None
    /\ pc = "dig"
    /\ projects = <<>>
    /\ packages_to_install = {}
    /\ theme = None
    /\ wanted = NoWanted
    /\ pi = 0
    /\ log = <<>>
    /\ cache = EmptyMap
    /\ result = <<>>
    /\ matched = <<>>
    /\ calls = 0
    /\ prev = [result |-> <<>>, log |-> <<>>]

\* A call _dig(cfg, dkeys).
DigCall ==
    /\ pc = "dig"
    /\ dout' = _dig(cfg, dkeys)
    /\ pc' = "dug"
    /\ UNCHANGED <<cfg, projects, packages_to_install, theme, wanted, pi, log, cache,
                   result, matched, calls, prev, dkeys>>

NextDig == DigCall

SpecDig == InitDig /\ [][NextDig]_vars

---------------------------------------------------------------------------
(* Vocabulary of the properties *)

Returned == pc = "done"

ResultSet == Range(result)

HasMarkerKey == cfg.t = "map" /\ DOMAIN cfg.m \cap MarkerKeys # {}

\* The configuration's theme is a mapping with a locale key.
ThemeHasLocale ==
    /\ cfg.t = "map"
    /\ S("theme") \in DOMAIN cfg.m
    /\ cfg.m[S("theme")].t = "map"
    /\ S("locale") \in DOMAIN cfg.m[S("theme")].m

ThemeLocale == cfg.m[S("theme")].m[S("locale")]

LocaleNotEn == ThemeHasLocale /\ ThemeLocale # StrV(S("en"))

\* The names the configuration requests, per kind, once the built-in ones
\* are taken out.
Requested == PrepareOutcome(cfg).wanted

\* The names project number j declares for kind number k.
Declared(j, k) == Range(_strings(Get(projects[j], Kinds[k].projects_key, _NotFound)))

\* The packages a match of project number j puts in the result.
Contribution(j) == {InstallName(projects[j])} \cup ExtraPackages(projects[j], cfg)

\* Every package of the result is the base package or comes from a match.
ResultIsContributions ==
    ResultSet = BasePackages(cfg)
                \cup UNION {Contribution(matched[i][3]) : i \in 1..Len(matched)}

\* Name n of kind k under the active theme's namespace: "<theme>/<n>".
Namespaced(n) == Format(theme) \o <<"/">> \o n

---------------------------------------------------------------------------
(* C10 *)

\* C10 (as stated): whenever the parsed root is a mapping (theme absent, null,
\* a string or a mapping with or without a name; plugins and
\* markdown_extensions absent, null, a mapping or a sequence), get_deps does
\* not raise.
C10_NoRaiseOnMappings == cfg.t = "map" => ~Raised

---------------------------------------------------------------------------
(* C2 *)

\* The configurations of C2: theme is a mapping with locale uk or en that
\* names a built-in theme or carries only locale, and nothing else is
\* requested.
C2_Scope ==
    /\ ThemeHasLocale
    /\ ThemeLocale \in {StrV(S("uk")), StrV(S("en"))}
    /\ \/ DOMAIN cfg.m[S("theme")].m = {S("locale")}
       \/ /\ S("name") \in DOMAIN cfg.m[S("theme")].m
          /\ cfg.m[S("theme")].m[S("name")] \in {StrV(S("mkdocs")), StrV(S("readthedocs"))}
    /\ S("plugins") \in DOMAIN cfg.m => cfg.m[S("plugins")] = ListV(<<StrV(S("search"))>>)
    /\ S("markdown_extensions") \notin DOMAIN cfg.m

\* C2 (as stated): on those configurations the call returns exactly
\* ["mkdocs[i18n]"] for locale uk and exactly ["mkdocs"] for locale en.
C2_LocaleResult ==
    (C2_Scope /\ (Returned \/ Raised)) =>
        /\ Returned
        /\ result = IF ThemeLocale = StrV(S("uk")) THEN <<S("mkdocs[i18n]")>>
                    ELSE <<S("mkdocs")>>

---------------------------------------------------------------------------
(* C1 *)

\* C1 (as stated): with a marker key present, the result holds exactly one of
\* "mkdocs" and "mkdocs[i18n]": the latter iff theme.locale is present and
\* not "en".
C1_ExactlyOneBase ==
    (Returned /\ HasMarkerKey) =>
        /\ (S("mkdocs[i18n]") \in ResultSet) # (S("mkdocs") \in ResultSet)
        /\ (S("mkdocs[i18n]") \in ResultSet) <=> LocaleNotEn

\* C1 (amended): with a marker key present, the result holds "mkdocs[i18n]"
\* if theme.locale is present and not "en" and "mkdocs" otherwise; the other
\* of the two is in the result only when a matched catalog project supplies
\* it, as its install identifier or as an applicable extra dependency.
C1_BasePackage ==
    (Returned /\ HasMarkerKey) =>
        LET base == IF LocaleNotEn THEN S("mkdocs[i18n]") ELSE S("mkdocs")
            other == IF LocaleNotEn THEN S("mkdocs") ELSE S("mkdocs[i18n]")
        IN  /\ base \in ResultSet
            /\ other \in ResultSet =>
                   \E i \in 1..Len(matched) : other \in Contribution(matched[i][3])

\* A call that returned with a locale other than en, null included, and a
\* catalog match, the i18n variant being the only base package.
C1_Witness ==
    /\ Returned
    /\ ThemeHasLocale /\ ThemeLocale = None
    /\ matched # <<>>
    /\ S("mkdocs[i18n]") \in ResultSet
    /\ S("mkdocs") \notin ResultSet

---------------------------------------------------------------------------
(* C7, C3 *)

\* The theme is absent, null or given by name.
ThemeNamed == theme.t \in {"null", "str"}

\* A theme name is in force.
ThemeActive == theme.t = "str" /\ theme.s # <<>>

\* Project number j can be installed and declares n for kind k, directly or,
\* for a plugin, under the namespace of the theme.
Offers(j, k, n) ==
    /\ HasInstallName(projects[j])
    /\ \/ n \in Declared(j, k)
       \/ k = 2 /\ theme.t = "str" /\ Namespaced(n) \in Declared(j, k)

Offering(k, n) == {j \in 1..Len(projects) : Offers(j, k, n)}

First(js) == CHOOSE j \in js : \A i \in js : j <= i

\* The projects that matched name n of kind k, one per match.
MatchesOf(k, n) == {i \in 1..Len(matched) : matched[i][1] = k /\ matched[i][2] = n}

\* C7 (as stated): when several projects declare a requested name, the first
\* of them in catalog order is the one that matches, the name leaves its
\* wanted set and no later declaration of it matches.
C7_FirstDeclarerWins ==
    Returned =>
        \A k \in 1..3 : \A n \in Requested[k] :
            LET declaring == {j \in 1..Len(projects) : n \in Declared(j, k)}
            IN  Cardinality(declaring) >= 2 =>
                    /\ n \notin wanted[k]
                    /\ MatchesOf(k, n) # {}
                    /\ \A i \in MatchesOf(k, n) : matched[i][3] = First(declaring)

\* C7 (amended): among the projects that have a pypi_id or github_id and
\* declare a requested name (directly or, for a plugin whose namespaced name
\* is not itself requested, as "<theme>/<name>"), the first in catalog order
\* is the one that matches; the name leaves its wanted set, it is matched
\* once, and nothing but the base package and the matches is in the result.
C7_FirstInstallableWins ==
    (Returned /\ ThemeNamed) =>
        /\ \A k \in 1..3 : \A n \in Requested[k] :
            (k = 2 /\ theme # None => Namespaced(n) \notin Requested[2]) =>
                IF Offering(k, n) = {}
                THEN MatchesOf(k, n) = {} /\ n \in wanted[k]
                ELSE /\ n \notin wanted[k]
                     /\ Cardinality(MatchesOf(k, n)) = 1
                     /\ \A i \in MatchesOf(k, n) : matched[i][3] = First(Offering(k, n))
        /\ ResultIsContributions

\* Two installable projects declare the requested plugin and the first one
\* matched it.
C7_Witness ==
    /\ Returned
    /\ Cardinality(Offering(2, S("tags"))) = 2
    /\ \E i \in 1..Len(matched) : matched[i] = <<2, S("tags"), 1>>
    /\ InstallName(projects[2]) \notin ResultSet

\* The <<a, b, p>> of C3: theme T in force, plugin p requested and "T/p" not,
\* project a declares "T/p" and a different project b declares bare p.
C3_Cases ==
    { x \in (1..Len(projects)) \X (1..Len(projects)) \X Requested[2] :
        /\ ThemeActive
        /\ x[1] # x[2]
        /\ projects[x[1]] # projects[x[2]]
        /\ Namespaced(x[3]) \notin Requested[2]
        /\ Namespaced(x[3]) \in Declared(x[1], 2)
        /\ x[3] \in Declared(x[2], 2) }

---------------------------------------------------------------------------
(* C8 *)

\* The error records a project without install name gets: one per available
\* entry that names a wanted capability, in the loops' order.
ExpectedErrors(project, th, w) ==
    LET hits == SelectSeq(Available(project, 1),
                          LAMBDA e : EffectiveName(e[2], th, Kinds[e[1]], w[e[1]]) \in w[e[1]])
    IN  [i \in 1..Len(hits) |->
            Rec("ERROR",
                <<"Can't find how to install ", <<"theme", "plugin", "extension">>[hits[i][1]],
                  " '">> \o EffectiveName(hits[i][2], th, Kinds[hits[i][1]], w[hits[i][1]])
                \o <<"' although it was identified as ">>,
                MapV(project))]

LocalNames(k) == {ep.name : ep \in entry_points(Kinds[k].entry_points_key)}

BuiltinNames(k) ==
    {ep.name : ep \in {e \in entry_points(Kinds[k].entry_points_key) :
                          e.dist \in {Dist(S("mkdocs")), Dist(S("Markdown"))}}}

KindTitle == <<"Theme", "Plugin", "Extension">>

NotProvidedText(k, n) ==
    <<KindTitle[k], " '">> \o n \o <<"' is not provided by any registered project">>

\* C8: a project with neither pypi_id nor github_id adds nothing to the
\* result and removes nothing from the wanted sets, an error is logged for
\* each wanted capability it declares, and the call goes on; a requested
\* name that no project matched is still wanted at the end and gets the
\* unmatched-name diagnostic (unless mkdocs or Markdown provides it locally).
C8_NoInstallSkipped ==
    /\ [][(pc = "match" /\ pi < Len(projects) /\ pi' = pi + 1
              /\ ~HasInstallName(projects[pi + 1])) =>
            /\ packages_to_install' = packages_to_install
            /\ wanted' = wanted
            /\ matched' = matched
            /\ log' = log \o ExpectedErrors(projects[pi + 1], theme, wanted)
            /\ pc' = "match"]_vars
    /\ [](Returned =>
            \A k \in 1..3 : \A n \in Requested[k] :
                MatchesOf(k, n) = {} =>
                    /\ n \in wanted[k]
                    /\ n \notin BuiltinNames(k) =>
                        \E i \in 1..Len(log) :
                            /\ log[i].level = IF n \in LocalNames(k) THEN "INFO" ELSE "WARNING"
                            /\ StartsWith(log[i].msg, NotProvidedText(k, n)))

\* A project without install name declared the requested plugin: the error
\* was logged, the name stayed wanted and got its warning.
C8_Witness ==
    /\ Returned
    /\ \E i \in 1..Len(log) : log[i].level = "ERROR"
    /\ S("tags") \in wanted[2]
    /\ \E i \in 1..Len(log) : log[i] = Rec("WARNING", NotProvidedText(2, S("tags")), None)

---------------------------------------------------------------------------
(* C4 *)

\* Requested name n of kind k is declared by no catalog project under that
\* name and has no local registration.
C4_Unknown(k, n) ==
    /\ n \in Requested[k]
    /\ \A j \in 1..Len(projects) : n \notin Declared(j, k)
    /\ n \notin LocalNames(k)

\* ... nor, for a plugin, is it declared under the namespace of the theme.
C4_UnknownToTheme(k, n) ==
    /\ C4_Unknown(k, n)
    /\ (k = 2 /\ theme.t = "str") =>
            \A j \in 1..Len(projects) : Namespaced(n) \notin Declared(j, k)

C4_Warning(k, n) == Rec("WARNING", NotProvidedText(k, n), None)

\* The warning of each name of the set is logged exactly once, the warnings
\* come in the order theme, plugins by name, extensions by name, no match
\* was made for these names, and every match's package is in the result.
C4_WarnedInOrder(names) ==
    /\ \A x \in names :
        /\ Cardinality({i \in 1..Len(log) : log[i] = C4_Warning(x[1], x[2])}) = 1
        /\ MatchesOf(x[1], x[2]) = {}
    /\ \A x, y \in names :
        (x[1] < y[1] \/ (x[1] = y[1] /\ StrLess(x[2], y[2]))) =>
            \A i, j \in 1..Len(log) :
                (log[i] = C4_Warning(x[1], x[2]) /\ log[j] = C4_Warning(y[1], y[2])) => i < j
    /\ \A i \in 1..Len(matched) : InstallName(projects[matched[i][3]]) \in ResultSet

\* The requested <<kind, name>> pairs.
RequestedNames == UNION { {<<k, n>> : n \in Requested[k]} : k \in 1..3 }

\* C4 (as stated): every requested name that no catalog project declares and
\* that has no local registration gets exactly one warning, in the order
\* theme, plugins sorted, extensions sorted, and no package.
C4_UnknownWarned ==
    Returned => C4_WarnedInOrder({x \in RequestedNames : C4_Unknown(x[1], x[2])})

\* C4 (amended): the same for the names that no catalog project declares
\* either directly or, for a plugin, as "<theme>/<name>" under the theme in
\* force (the theme being absent or given by name).
C4_UnknownToThemeWarned ==
    (Returned /\ ThemeNamed) =>
        C4_WarnedInOrder({x \in RequestedNames : C4_UnknownToTheme(x[1], x[2])})

\* An unknown theme, two unknown plugins and an unknown extension beside a
\* resolved extension: four warnings, and the resolved package.
C4_Witness ==
    /\ Returned
    /\ \A x \in {<<1, S("qndy")>>, <<2, S("syyi")>>, <<2, S("tagl")>>, <<3, S("saqd")>>} :
        C4_UnknownToTheme(x[1], x[2])
    /\ \E i \in 1..Len(log) : log[i] = C4_Warning(3, S("saqd"))
    /\ S("markdown-callouts") \in ResultSet

---------------------------------------------------------------------------
(* C5 *)

\* The segments of a dotted path.
RECURSIVE SplitDots(_)
SplitDots(path) ==
    IF FirstIndex(path, ".") = 0 THEN <<path>>
    ELSE <<SubSeq(path, 1, FirstIndex(path, ".") - 1)>>
         \o SplitDots(SliceFrom(path, FirstIndex(path, ".")))

\* The names a sequence entry stands for, and the options it gives a name.
ItemNames(item) ==
    IF item.t = "str" THEN {item.s}
    ELSE IF item.t = "map" /\ Cardinality(DOMAIN item.m) = 1 THEN DOMAIN item.m
    ELSE {}

ItemValue(item, n) == IF item.t = "str" THEN MapV(EmptyMap) ELSE item.m[n]

NamesOf(l) == UNION {ItemNames(l[i]) : i \in 1..Len(l)}

\* The options of the first entry of sequence l that stands for n.
FirstOccurrence(l, n) ==
    LET i == CHOOSE i \in 1..Len(l) :
                /\ n \in ItemNames(l[i])
                /\ \A j \in 1..(i - 1) : n \notin ItemNames(l[j])
    IN  ItemValue(l[i], n)

\* Whether the segments lead to a value in document v, whatever the value.
RECURSIVE PresentAt(_, _)
PresentAt(v, segs) ==
    IF segs = <<>> THEN TRUE
    ELSE CASE v.t = "map" ->
                /\ Head(segs) \in DOMAIN v.m
                /\ PresentAt(v.m[Head(segs)], Tail(segs))
           [] v.t = "list" ->
                /\ Head(segs) \in NamesOf(v.l)
                /\ PresentAt(FirstOccurrence(v.l, Head(segs)), Tail(segs))
           [] OTHER -> FALSE

RulePackages(v) == IF v.t = "str" THEN {v.s} ELSE {v.l[i].s : i \in 1..Len(v.l)}

\* The packages of the extra-dependency rules of project number j whose path
\* is present in the configuration.
PresentRules(j) ==
    LET ed == Get(projects[j], S("extra_dependencies"), MapV(EmptyMap)).m
    IN  UNION {RulePackages(ed[path]) :
                  path \in {x \in DOMAIN ed : PresentAt(cfg, SplitDots(x))}}

\* C5: the result is the base package, the install name of each matched
\* project and, of its extra-dependency rules, the packages of exactly those
\* whose dotted path leads to a value (null included) in the configuration.
C5_ExtrasWhenPresent ==
    Returned =>
        ResultSet = BasePackages(cfg)
                    \cup UNION { {InstallName(projects[matched[i][3]])}
                                 \cup PresentRules(matched[i][3]) : i \in 1..Len(matched) }

\* A matched project whose rule on theme.locale applied to a null locale,
\* and one whose rule on markdown_extensions.toc did not apply.
C5_Witness ==
    /\ Returned
    /\ ThemeHasLocale /\ ThemeLocale = None
    /\ S("babel") \in ResultSet
    /\ \E i \in 1..Len(matched) : projects[matched[i][3]] = ProjectTags
    /\ S("pymdown-extensions") \notin ResultSet

---------------------------------------------------------------------------
(* C6 *)

IsAvailableRec(r) == r.level = "DEBUG" /\ StartsWith(r.msg, <<"Available '">>)

\* C6 (as stated): a second call on the same configuration and catalog
\* returns the same output and logs the same records.
C6_SameOutputAndLog ==
    (Returned /\ calls >= 2) => (result = prev.result /\ log = prev.log)

\* C6 (amended): a later call returns the same output and logs the same
\* records in the same order, except the DEBUG record "Available '<group>'
\* entry points", which only the call that computes the group logs.
C6_SameButAvailable ==
    (Returned /\ calls >= 2) =>
        /\ result = prev.result
        /\ log = SelectSeq(prev.log, LAMBDA r : ~IsAvailableRec(r))

\* A second call whose predecessor looked up the local registrations: it
\* repeats the INFO and WARNING records.
C6_Witness ==
    /\ Returned
    /\ calls = 2
    /\ \E i \in 1..Len(prev.log) : IsAvailableRec(prev.log[i])
    /\ \E i \in 1..Len(log) : log[i].level = "INFO"
    /\ \E i \in 1..Len(log) : log[i].level = "WARNING"

---------------------------------------------------------------------------
(* C9 *)

\* The mapping a sequence flattens to, by the first occurrence of each name.
FirstWins(l) == MapV([n \in NamesOf(l) |-> FirstOccurrence(l, n)])

\* C9: _dig on a path into a sequence returns the mapping from each name to
\* the options of its first occurrence, and resolves the rest of the path in
\* that mapping.
C9_FirstOccurrenceWins ==
    pc = "dug" =>
        LET l == cfg.m[S("plugins")].l
            below == Partition(dkeys, ".")[2]
        IN  dout = IF below = <<>> THEN FirstWins(l) ELSE _dig(FirstWins(l), below)

\* A name given first bare and later with options: the path below it finds
\* nothing, the bare entry's empty mapping being the one kept.
C9_Witness ==
    /\ pc = "dug"
    /\ cfg.m[S("plugins")].l = <<StrV(ItemA), MapV(ItemA :> MapV(ItemX :> StrV(S("1"))))>>
    /\ dkeys = <<"plugins", ".", "a", ".", "x">>
    /\ dout = _NotFound

====
